---- MODULE Spec2Model ----
(***************************************************************************)
(* MacroMoney (src/app.py): a Streamlit script that classifies a news      *)
(* headline into a macro archetype, scores its severity and, when the      *)
(* horizon-adjusted impact is large enough, rebalances a five-asset        *)
(* portfolio.                                                              *)
(*                                                                         *)
(* Numbers.  Every decimal literal of the script is a short decimal        *)
(* fraction, so the model computes with exact integers in fixed point:     *)
(*   betas, horizon decay, risk scale     tenths                           *)
(*   severity                             hundredths                       *)
(*   effective impact                     thousandths                      *)
(*   adjustments, raw new weights, total  1/100000 (WeightUnit)            *)
(*   returned weights                     hundredths (round(x, 2))         *)
(* Python's round(x, 2) is modelled by Round on the exact quotient; binary *)
(* floating point differs from the exact value by about 1e-13 at most,     *)
(* which can only change the outcome of an exact tie, where Round yields   *)
(* both neighbours.                                                        *)
(*                                                                         *)
(* Text.  A headline is a sequence of one-character strings; lower(),      *)
(* strip() and the substring test `x in s` are computed character by       *)
(* character, over ASCII letters and the white space " ", tab and newline. *)
(* The horizon label "Medium-term (1-3 years)" is written with a hyphen    *)
(* for the en dash of the source.                                          *)
(*                                                                         *)
(* Left out: the capital widget (lines 25-30), which no computation reads, *)
(* and everything the script only renders (titles, tables, charts).        *)
(***************************************************************************)
EXTENDS Integers, Sequences, FiniteSets, TLC

(***************************************************************************)
(* Bounds of the model.                                                    *)
(***************************************************************************)
\* Headlines of the classification harness are made of at most this many tokens.
MaxTokens == 2
\* Weight widgets of the application take the values k * 20, k in 0..MaxAppWeightSteps.
MaxAppWeightSteps == 2
\* Weights of the rebalancing harness lie on a grid of this many cells over 0..100.
WeightCells == 5

(***************************************************************************)
(* Sidebar widgets (lines 32-46).                                          *)
(***************************************************************************)
assets == <<"Equities", "Bonds", "Gold", "Commodities", "Crypto">>

\* The keys of the weights dict.
AssetSet == {assets[i] : i \in 1..Len(assets)}

Horizons == {"Short-term (<1 year)", "Medium-term (1-3 years)", "Long-term (3+ years)"}

RiskTolerances == {"Low", "Medium", "High"}

\* number_input(asset, min_value=0, max_value=100, value=20)
MinWeight == 0
MaxWeight == 100
DefaultWeight == 20

(***************************************************************************)
(* Archetype library: betas in tenths.                                     *)
(***************************************************************************)
Betas(eq, bo, go, co, cr) ==
    [betas |-> [a \in AssetSet |->
        CASE a = "Equities"    -> eq
          [] a = "Bonds"       -> bo
          [] a = "Gold"        -> go
          [] a = "Commodities" -> co
          [] a = "Crypto"      -> cr]]

NOISE == "Local / Noise"

ARCHETYPES ==
    [n \in {"Political Shock", "Commodity Price Breakout", "Monetary Policy Shock",
            "Corporate Earnings Shock", "Trade / Commodity Deal",
            "Geopolitical Escalation", NOISE} |->
        CASE n = "Political Shock"          -> Betas(-6, 2, 9, 3, -4)
          [] n = "Commodity Price Breakout" -> Betas(-2, -1, 8, 7, 1)
          [] n = "Monetary Policy Shock"    -> Betas(-4, -5, 4, 5, -3)
          [] n = "Corporate Earnings Shock" -> Betas(4, 0, 0, 1, 2)
          [] n = "Trade / Commodity Deal"   -> Betas(2, 0, 3, 5, 1)
          [] n = "Geopolitical Escalation"  -> Betas(-8, 3, 10, 6, -5)
          [] n = NOISE                      -> Betas(0, 0, 0, 0, 0)]

\* Horizon decay in tenths.
HORIZON_DECAY ==
    [h \in Horizons |->
        CASE h = "Short-term (<1 year)"    -> 10
          [] h = "Medium-term (1-3 years)" -> 7
          [] h = "Long-term (3+ years)"    -> 4]

\* Risk scale in tenths.
RISK_SCALE ==
    [r \in RiskTolerances |->
        CASE r = "Low" -> 5 [] r = "Medium" -> 10 [] r = "High" -> 15]

(***************************************************************************)
(* Arithmetic helpers.                                                     *)
(***************************************************************************)
RECURSIVE SumFrom(_, _, _)
SumFrom(d, keys, i) ==
    IF i > Len(keys) THEN 0 ELSE d[keys[i]] + SumFrom(d, keys, i + 1)

\* sum(d.values()) of a dict with the given keys
Sum(d, keys) == SumFrom(d, keys, 1)

Abs(x) == IF x < 0 THEN -x ELSE x

\* max(0, x)
Max0(x) == IF x > 0 THEN x ELSE 0

RECURSIVE LongDiv(_, _, _, _)
\* Quotient and remainder of (q * den + r) * 10^digits by den, digit by digit.
LongDiv(q, r, den, digits) ==
    IF digits = 0 THEN <<q, r>>
    ELSE LongDiv(q * 10 + (r * 10) \div den, (r * 10) % den, den, digits - 1)

\* The integers nearest to num * 10^digits / den for den > 0: one, or the two
\* neighbours when the quotient lies exactly half way between them.
NearestPos(num, den, digits) ==
    LET qr == LongDiv(num \div den, num % den, den, digits)
        q  == qr[1]
        r  == qr[2]
    IN  IF 2 * r < den THEN {q}
        ELSE IF 2 * r > den THEN {q + 1}
        ELSE {q, q + 1}

\* round() of a float quotient: the integer nearest to num * 10^digits / den
\* (den # 0).  At an exact tie the float is the nearest binary fraction to the
\* quotient, which lies on either side of it, so round() yields either neighbour.
Round(num, den, digits) ==
    IF den < 0 THEN NearestPos(-num, -den, digits) ELSE NearestPos(num, den, digits)

(***************************************************************************)
(* Text helpers: str.lower(), str.strip(), `x in s`.                       *)
(***************************************************************************)
LowerMap ==
    [c \in {"A", "B", "C", "D", "E", "F", "G", "H", "I", "J", "K", "L", "M",
            "N", "O", "P", "Q", "R", "S", "T", "U", "V", "W", "X", "Y", "Z"} |->
        CASE c = "A" -> "a" [] c = "B" -> "b" [] c = "C" -> "c" [] c = "D" -> "d"
          [] c = "E" -> "e" [] c = "F" -> "f" [] c = "G" -> "g" [] c = "H" -> "h"
          [] c = "I" -> "i" [] c = "J" -> "j" [] c = "K" -> "k" [] c = "L" -> "l"
          [] c = "M" -> "m" [] c = "N" -> "n" [] c = "O" -> "o" [] c = "P" -> "p"
          [] c = "Q" -> "q" [] c = "R" -> "r" [] c = "S" -> "s" [] c = "T" -> "t"
          [] c = "U" -> "u" [] c = "V" -> "v" [] c = "W" -> "w" [] c = "X" -> "x"
          [] c = "Y" -> "y" [] c = "Z" -> "z"]

lower(s) ==
    [i \in 1..Len(s) |-> IF s[i] \in DOMAIN LowerMap THEN LowerMap[s[i]] ELSE s[i]]

Whitespace == {" ", "\t", "\n"}

strip(s) ==
    LET keep == {i \in 1..Len(s) : s[i] \notin Whitespace}
    IN  IF keep = {} THEN <<>>
        ELSE LET lo == CHOOSE i \in keep : \A j \in keep : i <= j
                 hi == CHOOSE i \in keep : \A j \in keep : i >= j
             IN  SubSeq(s, lo, hi)

\* x in s
Contains(s, x) ==
    \E i \in 0..(Len(s) - Len(x)) : SubSeq(s, i + 1, i + Len(x)) = x

\* any(x in s for x in keywords)
AnyIn(s, keywords) ==
    \E k \in 1..Len(keywords) : Contains(s, keywords[k])

(***************************************************************************)
(* MACRO AXIS SCORING (lines 97-136).                                      *)
(***************************************************************************)
GeopoliticalKeywords ==
    << <<"w", "a", "r">>,
       <<"a", "t", "t", "a", "c", "k">>,
       <<"a", "s", "s", "a", "s", "s", "i", "n", "a", "t", "i", "o", "n">>,
       <<"c", "o", "n", "f", "l", "i", "c", "t">>,
       <<"s", "a", "n", "c", "t", "i", "o", "n", "s">> >>

TradeKeywords ==
    << <<"d", "e", "a", "l">>,
       <<"t", "r", "a", "d", "e">>,
       <<"b", "i", "l", "l", "i", "o", "n">>,
       <<"m", "e", "t", "a", "l">>,
       <<"c", "o", "m", "m", "o", "d", "i", "t", "y">> >>

EarningsKeywords ==
    << <<"e", "a", "r", "n", "i", "n", "g", "s">>,
       <<"p", "r", "o", "f", "i", "t">>,
       <<"l", "o", "s", "s">>,
       <<"q", "u", "a", "r", "t", "e", "r">> >>

MonetaryKeywords ==
    << <<"f", "e", "d">>,
       <<"i", "n", "f", "l", "a", "t", "i", "o", "n">>,
       <<"i", "n", "t", "e", "r", "e", "s", "t", " ", "r", "a", "t", "e">>,
       <<"c", "e", "n", "t", "r", "a", "l", " ", "b", "a", "n", "k">> >>

AxisOrder ==
    <<"Geopolitical Intensity", "Economic Scale", "Cross-Border Impact", "Asset Transmission">>

AxisNames == {AxisOrder[i] : i \in 1..Len(AxisOrder)}

Axes(gpi, es, cbi, at) ==
    [k \in AxisNames |->
        CASE k = "Geopolitical Intensity" -> gpi
          [] k = "Economic Scale"         -> es
          [] k = "Cross-Border Impact"    -> cbi
          [] k = "Asset Transmission"     -> at]

\* The if / elif chain over the lower-cased text: the first matching group wins.
AxisRules(news_lower) ==
    IF AnyIn(news_lower, GeopoliticalKeywords) THEN Axes(5, 4, 5, 5)
    ELSE IF AnyIn(news_lower, TradeKeywords) THEN Axes(2, 4, 4, 4)
    ELSE IF AnyIn(news_lower, EarningsKeywords) THEN Axes(1, 3, 2, 3)
    ELSE IF AnyIn(news_lower, MonetaryKeywords) THEN Axes(1, 4, 4, 4)
    ELSE Axes(0, 0, 0, 0)

\* Mutant: the rules applied to the text as typed, without lower().
macro_axis_scores_case_sensitive(news) == AxisRules(news)

macro_axis_scores(news) == AxisRules(lower(news))

(***************************************************************************)
(* CLASSIFY ARCHETYPE BASED ON AXIS (lines 141-158).                       *)
(***************************************************************************)
\* Mutant: the decision tree without its noise branch.
classify_archetype_without_noise(axes) ==
    LET gpi == axes["Geopolitical Intensity"]
        es  == axes["Economic Scale"]
        cbi == axes["Cross-Border Impact"]
        at  == axes["Asset Transmission"]
    IN  IF gpi >= 4 THEN "Geopolitical Escalation"
        ELSE IF es >= 4 /\ at >= 4 /\ gpi >= 2 THEN "Trade / Commodity Deal"
        ELSE IF gpi <= 1 /\ es >= 3 /\ cbi >= 2 /\ at >= 3 THEN "Corporate Earnings Shock"
        ELSE IF es >= 4 /\ gpi <= 2 /\ at >= 3 THEN "Monetary Policy Shock"
        ELSE "Political Shock"

classify_archetype(axes) ==
    LET gpi == axes["Geopolitical Intensity"]
        es  == axes["Economic Scale"]
        cbi == axes["Cross-Border Impact"]
        at  == axes["Asset Transmission"]
    IN  IF gpi >= 4 THEN "Geopolitical Escalation"
        ELSE IF es >= 4 /\ at >= 4 /\ gpi >= 2 THEN "Trade / Commodity Deal"
        ELSE IF gpi <= 1 /\ es >= 3 /\ cbi >= 2 /\ at >= 3 THEN "Corporate Earnings Shock"
        ELSE IF es >= 4 /\ gpi <= 2 /\ at >= 3 THEN "Monetary Policy Shock"
        ELSE IF gpi = 0 /\ es = 0 THEN NOISE
        ELSE "Political Shock"

(***************************************************************************)
(* SEVERITY CALCULATION (lines 163-169).  Axis weights in thousandths, the *)
(* result rounded to hundredths.                                           *)
(***************************************************************************)
SeverityWeights ==
    [k \in AxisNames |->
        CASE k = "Geopolitical Intensity" -> 350
          [] k = "Economic Scale"         -> 300
          [] k = "Cross-Border Impact"    -> 200
          [] k = "Asset Transmission"     -> 150]

\* Mutant: the plain sum of the axis scores, without the weights.
compute_severity_unweighted(axes) == Sum(axes, AxisOrder) * 100

\* The weighted sum is a multiple of 0.05, never a tie of round(severity, 2).
compute_severity(axes) ==
    LET severity == Sum([k \in AxisNames |-> axes[k] * SeverityWeights[k]], AxisOrder)
    IN  CHOOSE s \in Round(severity, 10, 0) : \A t \in Round(severity, 10, 0) : s <= t

(***************************************************************************)
(* PORTFOLIO REBALANCING (lines 174-184).                                  *)
(***************************************************************************)
\* One percentage point in the unit of adjustments:
\* tenths (beta) * hundredths (severity) * tenths (decay) * tenths (risk scale).
WeightUnit == 10 * 100 * 10 * 10

\* adjustment = betas[asset]*severity*decay*risk_scale*2
Adjustment(beta, severity, decay, risk_scale) ==
    beta * severity * decay * risk_scale * 2

\* Mutant: the new weight without the clamp at 0.
RawWeightUnclamped(weight, adjustment) == weight * WeightUnit + adjustment

\* new_weights[asset] = max(0, new_weights[asset] + adjustment)
RawWeight(weight, adjustment) == Max0(weight * WeightUnit + adjustment)

\* Mutant: round(v/total, 2), a fraction of 1 instead of a percentage.
RenormaliseAsFraction(v, total) == Round(v, total, 2)

\* round(v*100/total, 2), in hundredths: v / total with four more decimal digits
Renormalise(v, total) == Round(v, total, 4)

RECURSIVE DictsOver(_, _)
\* The dicts that take, at each key of keys, one of the values choices[key].
DictsOver(choices, keys) ==
    IF keys = {} THEN { <<>> }
    ELSE LET k == CHOOSE x \in keys : TRUE
         IN  { (k :> v) @@ d : v \in choices[k], d \in DictsOver(choices, keys \ {k}) }

\* The dicts {k: round(v*100/total, 2) for k, v in new_weights.items()}.
Returned(new_weights, total) ==
    DictsOver([a \in DOMAIN new_weights |-> Renormalise(new_weights[a], total)],
              DOMAIN new_weights)

\* return {k: round(v*100/total,2) for k,v in new_weights.items()}: the raw new
\* weights, their total, and the returned dict <<d>>, or <<>> when the division
\* by total raises ZeroDivisionError.
Outcomes(new_weights, total) ==
    IF total = 0
    THEN { [new_weights |-> new_weights, total |-> total, returned |-> <<>>] }
    ELSE { [new_weights |-> new_weights, total |-> total, returned |-> <<d>>] :
             d \in Returned(new_weights, total) }

\* The outcomes of a call.  (The loop's result and its sum are bound once, as
\* members of singleton sets.)
rebalance_portfolio(weights, archetype, severity, horizon, risk) ==
    LET betas      == ARCHETYPES[archetype].betas
        decay      == HORIZON_DECAY[horizon]
        risk_scale == RISK_SCALE[risk]
    IN  UNION { UNION { Outcomes(new_weights, total) :
                          total \in { Sum(new_weights, assets) } } :
                  new_weights \in
                      { [a \in DOMAIN weights |->
                           RawWeight(weights[a],
                                     Adjustment(betas[a], severity, decay, risk_scale))] } }

(***************************************************************************)
(* Headlines fed to the model.                                             *)
(***************************************************************************)
RECURSIVE Join(_)
\* " ".join(tokens)
Join(tokens) ==
    IF Len(tokens) = 0 THEN <<>>
    ELSE IF Len(tokens) = 1 THEN tokens[1]
    ELSE tokens[1] \o <<" ">> \o Join(Tail(tokens))

Range(seq) == {seq[i] : i \in 1..Len(seq)}

\* Every keyword of the four rule groups.
AllKeywords ==
    Range(GeopoliticalKeywords) \cup Range(TradeKeywords)
        \cup Range(EarningsKeywords) \cup Range(MonetaryKeywords)

\* Words that are no keyword, upper-case spellings, a word that merely contains
\* a keyword, and white space.
OtherTokens ==
    { <<"i", "n", "v", "a", "s", "i", "o", "n">>,
      <<"m", "i", "l", "i", "t", "a", "r", "y">>,
      <<"g", "o", "l", "d">>,
      <<"p", "r", "i", "c", "e", "s">>,
      <<"a", "w", "a", "r", "d">>,
      <<"W", "A", "R">>,
      <<"W", "a", "r">>,
      <<"F", "e", "d">>,
      <<" ">>,
      <<"\t">> }

Vocabulary == AllKeywords \cup OtherTokens

\* The headlines of at most MaxTokens tokens.
Headlines ==
    { Join(ts) : ts \in UNION { [1..k -> Vocabulary] : k \in 0..MaxTokens } }

\* The headlines typed into the text area of the application.
AppHeadlines ==
    { <<>>,
      <<" ">>,
      <<"\t", " ", "\n">>,
      <<" ", "W", "a", "r", " ">>,
      <<"t", "r", "a", "d", "e", " ", "d", "e", "a", "l">>,
      <<"Q", "3", " ", "e", "a", "r", "n", "i", "n", "g", "s">>,
      <<"F", "e", "d", " ", "i", "n", "f", "l", "a", "t", "i", "o", "n">>,
      <<"g", "o", "l", "d", " ", "p", "r", "i", "c", "e", "s">>,
      <<"m", "i", "l", "i", "t", "a", "r", "y", " ", "i", "n", "v", "a", "s", "i", "o", "n">> }

\* The values a weight widget is set to.
AppWeightValues ==
    { v \in {k * DefaultWeight : k \in 0..MaxAppWeightSteps} :
        MinWeight <= v /\ v <= MaxWeight }

\* The weights of the rebalancing harness: a grid over 0..100.
GridWeightValues == { (MaxWeight * k) \div WeightCells : k \in 0..WeightCells }

\* Portfolios over the grid that allocate at most 100 %; the valid ones sum to 100.
GridPortfolios == { w \in [AssetSet -> GridWeightValues] : Sum(w, assets) <= 100 }

\* The severities compute_severity produces, in hundredths.
Severities == { compute_severity(macro_axis_scores(h)) : h \in AppHeadlines }

(***************************************************************************)
(* MAIN APP (lines 48-49 and 189-230): one run of the script.              *)
(***************************************************************************)
\* effective_impact = severity*HORIZON_DECAY[horizon], in thousandths
EffectiveImpact(severity, h) == severity * HORIZON_DECAY[h]

\* The 1.5 of line 213, in thousandths.
TriggerThreshold == 1500

\* Mutant: `and` for `or`.
NoRebalanceBoth(archetype, effective_impact) ==
    archetype = NOISE /\ effective_impact < TriggerThreshold

\* Mutant: the two branches of the if swapped.
NoRebalanceSwapped(archetype, effective_impact) ==
    ~ (archetype = NOISE \/ effective_impact < TriggerThreshold)

\* if archetype=="Local / Noise" or effective_impact < 1.5
NoRebalance(archetype, effective_impact) ==
    archetype = NOISE \/ effective_impact < TriggerThreshold

\* Mutant: `if not news`, without strip().
NoNewsUnstripped(n) == n = <<>>

\* if not news.strip()
NoNews(n) == strip(n) = <<>>

\* if sum(weights.values()) != 100
AllocationError(w) == Sum(w, assets) # 100

\* What a run without a button press shows.
NoOutput ==
    [button |-> FALSE, calls |-> <<>>, message |-> "", analysis |-> <<>>,
     rebalance |-> <<>>]

\* Lines 200-230: what the run shows once axes, archetype and severity are known.
Analysed(axes, archetype, severity, h, r, w) ==
    LET effective_impact == EffectiveImpact(severity, h)
        analysis         == [axes |-> axes, archetype |-> archetype,
                             severity |-> severity,
                             effective_impact |-> effective_impact]
        called           == <<"macro_axis_scores", "classify_archetype",
                              "compute_severity">>
    IN  IF NoRebalance(archetype, effective_impact)
        THEN { [button |-> TRUE, calls |-> called, message |-> "info",
                analysis |-> <<analysis>>, rebalance |-> <<>>] }
        ELSE { [button |-> TRUE,
                calls |-> Append(called, "rebalance_portfolio"),
                message |-> IF after.returned = <<>> THEN "exception" ELSE "success",
                analysis |-> <<analysis>>, rebalance |-> <<after>>] :
                 after \in rebalance_portfolio(w, archetype, severity, h, r) }

\* What the run of a button press can show: the functions called, in order, the
\* message, the analysis (axes, archetype, severity, effective impact) and the
\* outcome of rebalance_portfolio.
Analyze(n, h, r, w) ==
    IF NoNews(n)
    THEN { [button |-> TRUE, calls |-> <<>>, message |-> "warning",
            analysis |-> <<>>, rebalance |-> <<>>] }
    ELSE UNION { UNION { Analysed(axes, archetype, compute_severity(axes), h, r, w) :
                           archetype \in { classify_archetype(axes) } } :
                   axes \in { macro_axis_scores(n) } }

(***************************************************************************)
(* State.  The widgets, what the last run of the script shows, and the     *)
(* call of the function harnesses.                                         *)
(***************************************************************************)
VARIABLES news, horizon, risk_tolerance, weights, sidebar_error, out, call

vars == <<news, horizon, risk_tolerance, weights, sidebar_error, out, call>>

widgets == <<news, horizon, risk_tolerance, weights>>

NoCall == [fn |-> "none"]

\* The first run of the script: every widget at its default, no button pressed.
Init ==
    /\ news = <<>>
    /\ horizon = "Short-term (<1 year)"
    /\ risk_tolerance = "Low"
    /\ weights = [a \in AssetSet |-> DefaultWeight]
    /\ sidebar_error = FALSE
    /\ out = NoOutput
    /\ call = NoCall

\* A widget change reruns the script with the button not pressed.
Rerun ==
    /\ sidebar_error' = AllocationError(weights')
    /\ out' = NoOutput
    /\ call' = call

SetNews ==
    /\ \E n \in AppHeadlines : n # news /\ news' = n
    /\ UNCHANGED <<horizon, risk_tolerance, weights>>
    /\ Rerun

SetHorizon ==
    /\ \E h \in Horizons : h # horizon /\ horizon' = h
    /\ UNCHANGED <<news, risk_tolerance, weights>>
    /\ Rerun

SetRiskTolerance ==
    /\ \E r \in RiskTolerances : r # risk_tolerance /\ risk_tolerance' = r
    /\ UNCHANGED <<news, horizon, weights>>
    /\ Rerun

SetWeight ==
    /\ \E a \in AssetSet, v \in AppWeightValues :
          v # weights[a] /\ weights' = [weights EXCEPT ![a] = v]
    /\ UNCHANGED <<news, horizon, risk_tolerance>>
    /\ Rerun

\* Pressing "Analyze Macro Impact" reruns the script with the button pressed.
PressAnalyze ==
    /\ UNCHANGED widgets
    /\ sidebar_error' = AllocationError(weights)
    /\ out' \in Analyze(news, horizon, risk_tolerance, weights)
    /\ call' = call

Next == SetNews \/ SetHorizon \/ SetRiskTolerance \/ SetWeight \/ PressAnalyze

Spec == Init /\ [][Next]_vars

(***************************************************************************)
(* Harness of the classification functions: lines 197-199 on any headline. *)
(***************************************************************************)
ClassifyInit ==
    /\ Init!1 /\ Init!2 /\ Init!3 /\ Init!4 /\ Init!5 /\ Init!6
    /\ \E h \in Headlines :
          call = [fn |-> "classify", news |-> h, result |-> <<>>]

Classify ==
    /\ call.fn = "classify" /\ call.result = <<>>
    /\ LET axes == macro_axis_scores(call.news)
       IN  call' = [call EXCEPT !.result =
                       << [axes |-> axes,
                           archetype |-> classify_archetype(axes),
                           severity |-> compute_severity(axes)] >>]
    /\ UNCHANGED <<news, horizon, risk_tolerance, weights, sidebar_error, out>>

ClassifySpec == ClassifyInit /\ [][Classify]_vars

(***************************************************************************)
(* Harness of rebalance_portfolio: any portfolio of the grid, any          *)
(* archetype, any severity, any horizon, any risk tolerance.               *)
(***************************************************************************)
RebalanceInit ==
    /\ Init!1 /\ Init!2 /\ Init!3 /\ Init!4 /\ Init!5 /\ Init!6
    /\ \E w \in GridPortfolios, a \in DOMAIN ARCHETYPES, s \in Severities,
          h \in Horizons, r \in RiskTolerances :
          call = [fn |-> "rebalance_portfolio", weights |-> w, archetype |-> a,
                  severity |-> s, horizon |-> h, risk |-> r, result |-> <<>>]

Rebalance ==
    /\ call.fn = "rebalance_portfolio" /\ call.result = <<>>
    /\ \E outcome \in rebalance_portfolio(call.weights, call.archetype,
                                          call.severity, call.horizon, call.risk) :
          call' = [call EXCEPT !.result = <<outcome>>]
    /\ UNCHANGED <<news, horizon, risk_tolerance, weights, sidebar_error, out>>

RebalanceSpec == RebalanceInit /\ [][Rebalance]_vars

(***************************************************************************)
(* Properties of rebalance_portfolio, checked under RebalanceSpec.         *)
(***************************************************************************)
\* The harness has called rebalance_portfolio.
Rebalanced == call.fn = "rebalance_portfolio" /\ call.result # <<>>

\* The call was made on a valid portfolio: the base weights sum to 100.
ValidPortfolio == Sum(call.weights, assets) = 100

\* The dict a call returned.
ReturnedDict == call.result[1].returned[1]

\* Sum of the returned weights and sum of the base weights, in units of 1e-6.
ReturnedMicro == Sum(ReturnedDict, assets) * 10000

BaseMicro == Sum(call.weights, assets) * 1000000

\* C1 as stated: on every valid input the returned weights sum to the sum of the
\* base weights within 1e-6.
C1_ConservationWithin1e6 ==
    (Rebalanced /\ ValidPortfolio) =>
        /\ call.result[1].returned # <<>>
        /\ Abs(ReturnedMicro - BaseMicro) <= 1

\* C1 amended: on every valid input the returned weights sum to the sum of the
\* base weights within 0.025, the five roundings to two decimals each being off
\* by at most 0.005.
C1_ConservationWithinRounding ==
    (Rebalanced /\ ValidPortfolio) =>
        /\ call.result[1].returned # <<>>
        /\ Abs(ReturnedMicro - BaseMicro) <= 25000

\* A valid portfolio whose rebalanced weights sum to 100.02 or 99.98.
C1_Witness ==
    /\ Rebalanced /\ ValidPortfolio
    /\ call.archetype # NOISE /\ call.severity > 0
    /\ call.result[1].returned # <<>>
    /\ Abs(ReturnedMicro - BaseMicro) = 20000

\* Base weight plus adjustment of an asset in the call, in WeightUnit.
Unclamped(a) ==
    call.weights[a] * WeightUnit
        + ARCHETYPES[call.archetype].betas[a] * call.severity
            * HORIZON_DECAY[call.horizon] * RISK_SCALE[call.risk] * 2

\* C6: an asset whose base weight plus adjustment is negative has raw weight 0
\* before renormalisation, and no returned weight is negative.
C6_ClampedNonNegative ==
    Rebalanced =>
        /\ \A a \in AssetSet :
              Unclamped(a) < 0 => call.result[1].new_weights[a] = 0
        /\ call.result[1].returned # <<>> =>
              \A a \in AssetSet : ReturnedDict[a] >= 0

\* A call on a valid portfolio in which an asset's adjustment drives it below zero
\* and a dict is returned.
C6_Witness ==
    /\ Rebalanced /\ ValidPortfolio
    /\ call.result[1].returned # <<>>
    /\ \E a \in AssetSet :
          /\ Unclamped(a) < 0
          /\ call.result[1].new_weights[a] = 0
          /\ ReturnedDict[a] = 0

(***************************************************************************)
(* Properties of the classification functions, checked under ClassifySpec. *)
(***************************************************************************)
\* The harness has classified its headline.
Classified == call.fn = "classify" /\ call.result # <<>>

\* The headline without regard to letter case.
Folded == lower(call.news)

WordWar == <<"w", "a", "r">>

WordInvasion == <<"i", "n", "v", "a", "s", "i", "o", "n">>

WordMilitary == <<"m", "i", "l", "i", "t", "a", "r", "y">>

WordAttack == <<"a", "t", "t", "a", "c", "k">>

WordAssassination == <<"a", "s", "s", "a", "s", "s", "i", "n", "a", "t", "i", "o", "n">>

WordConflict == <<"c", "o", "n", "f", "l", "i", "c", "t">>

WordSanctions == <<"s", "a", "n", "c", "t", "i", "o", "n", "s">>

\* C3 as stated: the severity index lies in [0,1] (severity is in hundredths).
C3_SeverityInUnitRange ==
    Classified => (0 <= call.result[1].severity /\ call.result[1].severity <= 100)

\* C3 amended: the severity index lies in [0,5], the range of the axis scores.
C3_SeverityInAxisRange ==
    Classified => (0 <= call.result[1].severity /\ call.result[1].severity <= 500)

\* A headline whose severity exceeds 1.
C3_Witness ==
    Classified /\ call.result[1].severity > 100

GeopoliticalAtMaximum ==
    /\ call.result[1].archetype = "Geopolitical Escalation"
    /\ call.result[1].axes["Geopolitical Intensity"] = 5

\* C5 as stated: a headline containing "war", "invasion" or "military", in any
\* letter case, is a Geopolitical Escalation with the geopolitical axis at 5.
C5_WarInvasionMilitary ==
    (Classified /\ \E x \in {WordWar, WordInvasion, WordMilitary} : Contains(Folded, x))
        => GeopoliticalAtMaximum

\* C5 amended: a headline containing "war", "attack", "assassination", "conflict"
\* or "sanctions", in any letter case, is a Geopolitical Escalation with the
\* geopolitical axis at 5.
C5_WarKeywords ==
    (Classified /\ \E x \in {WordWar, WordAttack, WordAssassination, WordConflict,
                             WordSanctions} : Contains(Folded, x))
        => GeopoliticalAtMaximum

\* A headline spelling "WAR" in capitals, classified as Geopolitical Escalation.
C5_Witness ==
    /\ Classified
    /\ Contains(call.news, <<"W", "A", "R">>)
    /\ ~ Contains(call.news, WordWar)
    /\ GeopoliticalAtMaximum

\* C8: a headline that matches the monetary-policy keywords and no keyword of a
\* rule of higher priority is classified as Monetary Policy Shock.
C8_MonetaryPolicyShock ==
    (/\ Classified
     /\ AnyIn(Folded, MonetaryKeywords)
     /\ ~ AnyIn(Folded, GeopoliticalKeywords)
     /\ ~ AnyIn(Folded, TradeKeywords)
     /\ ~ AnyIn(Folded, EarningsKeywords))
        => call.result[1].archetype = "Monetary Policy Shock"

\* C9: a headline containing no keyword of any rule has all four axes at 0 and
\* is classified as Local / Noise.
C9_NoMatchIsNoise ==
    (Classified /\ \A x \in AllKeywords : ~ Contains(Folded, x)) =>
        /\ \A k \in AxisNames : call.result[1].axes[k] = 0
        /\ call.result[1].archetype = "Local / Noise"

\* A headline of words, none a keyword, classified as Local / Noise.
C9_Witness ==
    /\ Classified
    /\ Contains(Folded, WordMilitary)
    /\ \A x \in AllKeywords : ~ Contains(Folded, x)
    /\ call.result[1].archetype = "Local / Noise"

(***************************************************************************)
(* Properties of the application, checked under Spec.                      *)
(***************************************************************************)
\* The last run of the script was a press of the button.
Pressed == out.button

\* The run called rebalance_portfolio.
RebalanceInvoked == out.rebalance # <<>>

\* C2: when the weights do not sum to 100, a press of Analyze calls none of
\* macro_axis_scores, classify_archetype, compute_severity, rebalance_portfolio.
C2_InvalidPortfolioBlocksAnalysis ==
    (Pressed /\ Sum(weights, assets) # 100) => out.calls = <<>>

\* C7: when the headline is empty or white space only, a press of Analyze is
\* rejected with a warning and calls none of the four functions.
C7_EmptyHeadlineRejected ==
    (Pressed /\ \A i \in 1..Len(news) : news[i] \in {" ", "\t", "\n"}) =>
        /\ out.calls = <<>>
        /\ out.message = "warning"

\* A press on a headline of white space, rejected.
C7_Witness ==
    /\ Pressed
    /\ Len(news) > 0
    /\ \A i \in 1..Len(news) : news[i] \in {" ", "\t", "\n"}
    /\ out.calls = <<>>

\* The trigger condition of an analysis: not noise, and severity times decay at
\* least 1.5 (in thousandths).
Triggered ==
    /\ out.analysis[1].archetype # "Local / Noise"
    /\ out.analysis[1].severity * HORIZON_DECAY[horizon] >= 1500

\* C4, the state part: in every analysis run rebalance_portfolio is invoked if
\* and only if the trigger condition holds.
C4_Gate ==
    (Pressed /\ out.analysis # <<>>) =>
        /\ RebalanceInvoked <=> Triggered
        /\ ("rebalance_portfolio" \in Range(out.calls)) <=> Triggered

\* C4, the step part: a run that does not invoke rebalance_portfolio leaves the
\* portfolio weights as they were.
C4_Identity ==
    (out'.button /\ out'.rebalance = <<>>) => weights' = weights

\* C4: rebalance_portfolio is invoked if and only if the archetype is not noise
\* and the effective impact is at least 1.5; when it is not invoked, the weights
\* after the run equal the base weights.
C4_TriggerGating == []C4_Gate /\ [][C4_Identity]_vars

\* An analysis of an event that is not noise, kept from rebalancing by the
\* threshold alone, with the weights left as entered.
C4_Witness ==
    /\ Pressed /\ out.analysis # <<>>
    /\ out.analysis[1].archetype # "Local / Noise"
    /\ out.analysis[1].effective_impact < 1500
    /\ ~ RebalanceInvoked
    /\ out.message = "info"

\* C10: whenever rebalance_portfolio is invoked by an analysis run, whatever the
\* weights, the total of the raw new weights is positive and the division
\* succeeds.
C10_TotalPositive ==
    (Pressed /\ RebalanceInvoked) =>
        /\ out.rebalance[1].total > 0
        /\ out.rebalance[1].returned # <<>>

\* A rebalancing of a portfolio whose weights are all 0.
C10_Witness ==
    /\ Pressed /\ RebalanceInvoked
    /\ \A a \in AssetSet : weights[a] = 0
    /\ out.rebalance[1].total > 0

====
